---- MODULE Spec2Model ----
(***************************************************************************)
(* Session / attendance consistency protocol of the attendance tracker.    *)
(*                                                                         *)
(* The stores (Supabase tables `sessions` and `attendance`) are shared     *)
(* state; every client handler is an async function whose awaits split it  *)
(* into steps.  A step is the local code that runs between two awaits      *)
(* together with the store request it ends in, evaluated by the store.     *)
(* Time is in milliseconds.  The two 500 ms setTimeout delays of onSubmit   *)
(* are positions the handler waits at: any amount of time may pass there.  *)
(***************************************************************************)
EXTENDS Integers, Sequences, FiniteSets, Bags, TLC

(* ------------------------------ bounds -------------------------------- *)
MaxSubmits == 2      \* onSubmit invocations over a run (one uuid each)
MaxTicks == 1        \* small clock advances over a run
MaxJumps == 1        \* long clock advances (just over an expiry window) over a run
MaxRecords == 2      \* attendance rows, stored or about to be
MaxSessions == 40    \* attendance records in a student's fetched list

Admins == {1, 2}     \* admin pages (QRGenerator instances)
OneAdmin == {1}      \* the admin page open when a single instructor works
Users == {1, 2}      \* students
OneUser == {1}       \* the student at the scanner page
Slots == {1}         \* fetchActiveSession invocations that may overlap
Calls == {1, 2}      \* handleQrCodeScan invocations that may overlap
OneCall == {1}       \* handleQrCodeScan invocations made one after the other

Null == 0            \* null / undefined / no row

\* what an instructor may have typed into the form.  The date and time fields
\* are <input type="date"> / <input type="time">, plain text fields where the
\* browser has no such widget; duration is the field's text as Number() reads it
Names == {"", "CS101"}
Dates == {"", "2024-01-10", "tomorrow"}
Times == {"", "09:00"}
Durations == {0, 1, 60}
WellFormedDates == {"2024-01-10"}
WellFormedTimes == {"09:00"}

\* time zones of the admin's browser: UTC, and one that leaves daylight
\* saving time (clocks go back by DstOffsetMs) at the instant FallBackAt
Zones == {"utc", "dst"}

(* ------------------------- program constants -------------------------- *)
ExpiryMinutes == 10  \* qrExpirationDate.setMinutes(getMinutes() + 10)
ExpiryMs == ExpiryMinutes * 60 * 1000
TickMs == 500        \* granularity of the modelled clock
DstOffsetMs == 60 * 60 * 1000
FallBackAt == 5 * 60 * 1000

VARIABLES
    ticks,        \* small clock advances so far
    jumps,        \* long clock advances so far
    sessions,     \* Session Store: sequence of rows, row id = position
    attendance,   \* Attendance Store: bag of rows (a row's id and time left out)
    nextUuid,     \* uuidv4() values handed out so far
    admin,        \* per admin page: position in onSubmit, locals, UI state
    fetches,      \* fetchActiveSession invocations in flight
    dash,         \* per student dashboard: activeSession, isCheckedIn
    calls,        \* handleQrCodeScan invocations in flight
    scanner,      \* per student scanner page: scanSuccess, scanError, ...
    form,         \* per admin page: the values in the form and its field errors
    zone,         \* the time zone of the admin's browser
    home,         \* StudentHome: the fetched attendance records and the rate shown
    view          \* admin Attendance page: fetched data, the table, the export

vars == <<ticks, jumps, sessions, attendance, nextUuid, admin,
          fetches, dash, calls, scanner, form, zone, home, view>>

storeVars == <<sessions, attendance>>
adminVars == <<nextUuid, admin>>
dashVars == <<fetches, dash>>
scanVars == <<calls, scanner>>
clockVars == <<ticks, jumps>>
pageVars == <<form, zone, home, view>>

(* ------------------------------- time --------------------------------- *)
\* new Date().getTime()
Now == ticks * TickMs + jumps * (ExpiryMs + TickMs)

\* toISOString().replace(/\.\d{3}Z$/, 'Z'): the milliseconds are dropped
StripMillis(t) == t - (t % 1000)

\* Date.prototype.setMinutes(getMinutes() + m) works on local time:
\* LocalTime(t), plus m minutes, and back with UTC(), which reads a local time
\* that occurs twice as the earlier (daylight saving) instant
TzOffset(z, t) == IF z = "dst" /\ t < FallBackAt THEN DstOffsetMs ELSE 0

LocalTime(z, t) == t + TzOffset(z, t)

UTC(z, l) == IF z = "dst" /\ l - DstOffsetMs < FallBackAt THEN l - DstOffsetMs ELSE l

SetMinutesPlus(z, t, m) == UTC(z, LocalTime(z, t) + m * 60 * 1000)

\* the v4 uuid of the n-th onSubmit; the store's serial row ids are 1, 2, ...
\* and no uuid is one of them
Uuid(n) == 0 - n

(* --------------------------- Session Store ---------------------------- *)
RowIds == 1..Len(sessions)

ActiveIds(ss) == {i \in 1..Len(ss) : ss[i].isActive}

\* .update({ is_active: false }).eq('is_active', true)
DeactivateAll(ss) == [i \in 1..Len(ss) |-> [ss[i] EXCEPT !.isActive = FALSE]]

\* .insert([sessionData]): the store assigns the id, sessionData carries none
InsertSession(ss, sessionData) == Append(ss, sessionData)

\* .select('*').eq('is_active', true).maybeSingle()
MaybeSingleActive(ss) ==
    LET act == ActiveIds(ss) IN
    IF act = {} THEN [data |-> Null, error |-> "none"]
    ELSE IF Cardinality(act) = 1
         THEN [data |-> CHOOSE i \in act : TRUE, error |-> "none"]
         ELSE [data |-> Null, error |-> "PGRST116"]

(* ------------------- QR text and the payload codec ------------------- *)
\* JSON text of a value: a string in quotes, a number as a numeral; a member
\* that is left out
JsonString(x) == <<"string", x>>
JsonNumber(n) == <<"number", n>>
JsonAbsent == <<"absent">>

\* the value JSON.parse gives for a member's text
JsonValue(tok) == IF tok = JsonAbsent THEN Null ELSE tok[2]

\* a decoded QR text: JSON text of an object, or anything else
Garbage ==
    [form |-> "garbage", sessionId |-> JsonAbsent, name |-> JsonAbsent,
     date |-> JsonAbsent, time |-> JsonAbsent, duration |-> JsonAbsent,
     generatedAt |-> JsonAbsent, expiresAfter |-> JsonAbsent]

\* a stringify that leaves the duration member out
StringifyShort(qrData) ==
    [form |-> "json", sessionId |-> JsonString(qrData.sessionId),
     name |-> JsonString(qrData.name), date |-> JsonString(qrData.date),
     time |-> JsonString(qrData.time), duration |-> JsonAbsent,
     generatedAt |-> JsonString(qrData.generatedAt),
     expiresAfter |-> JsonNumber(qrData.expiresAfter)]

\* JSON.stringify(qrData)
Stringify(qrData) ==
    [form |-> "json", sessionId |-> JsonString(qrData.sessionId),
     name |-> JsonString(qrData.name), date |-> JsonString(qrData.date),
     time |-> JsonString(qrData.time), duration |-> JsonNumber(qrData.duration),
     generatedAt |-> JsonString(qrData.generatedAt),
     expiresAfter |-> JsonNumber(qrData.expiresAfter)]

\* a well-formed payload somebody else wrote, naming the session id k
\* (k = Null: an object without sessionId)
Crafted(k) ==
    [form |-> "json",
     sessionId |-> IF k = Null THEN JsonAbsent ELSE JsonNumber(k),
     name |-> JsonAbsent, date |-> JsonAbsent, time |-> JsonAbsent,
     duration |-> JsonAbsent, generatedAt |-> JsonNumber(0),
     expiresAfter |-> JsonNumber(ExpiryMinutes)]

\* a parse that does not test sessionId
ParseQRLax(text) ==
    IF text.form = "json"
    THEN [error |-> FALSE, sessionId |-> JsonValue(text.sessionId),
          name |-> JsonValue(text.name), date |-> JsonValue(text.date),
          time |-> JsonValue(text.time), duration |-> JsonValue(text.duration),
          generatedAt |-> JsonValue(text.generatedAt),
          expiresAfter |-> JsonValue(text.expiresAfter)]
    ELSE [error |-> TRUE, sessionId |-> Null, name |-> Null, date |-> Null,
          time |-> Null, duration |-> Null, generatedAt |-> Null,
          expiresAfter |-> Null]

\* JSON.parse(decodedText) and the `!parsedQR.sessionId` test: the parsed
\* object, or error for text that is no JSON object or has no truthy sessionId
ParseQR(text) ==
    IF text.form = "json" /\ JsonValue(text.sessionId) # Null
    THEN [error |-> FALSE, sessionId |-> JsonValue(text.sessionId),
          name |-> JsonValue(text.name), date |-> JsonValue(text.date),
          time |-> JsonValue(text.time), duration |-> JsonValue(text.duration),
          generatedAt |-> JsonValue(text.generatedAt),
          expiresAfter |-> JsonValue(text.expiresAfter)]
    ELSE [error |-> TRUE, sessionId |-> Null, name |-> Null, date |-> Null,
          time |-> Null, duration |-> Null, generatedAt |-> Null,
          expiresAfter |-> Null]

(* ----------------------------- QRGenerator ---------------------------- *)
\* formSchema: the fields zod rejects
FormSchema(v) ==
    {f \in {"name"} : v.name = ""} \cup {f \in {"date"} : v.date = ""}
    \cup {f \in {"time"} : v.time = ""} \cup {f \in {"duration"} : v.duration < 1}

\* useForm defaultValues
DefaultForm ==
    [name |-> "", date |-> "", time |-> "", duration |-> 60, errors |-> {}]

\* the form as an instructor has filled it in
FilledForm ==
    [name |-> "CS101", date |-> "2024-01-10", time |-> "09:00", duration |-> 60,
     errors |-> {}]

\* FormValues, the argument handleSubmit passes to onSubmit
FormValues(v) ==
    [name |-> v.name, date |-> v.date, time |-> v.time, duration |-> v.duration]

NoData == [name |-> "", date |-> "", time |-> "", duration |-> 0]

AdminInit ==
    [pc |-> "idle", data |-> NoData,
     sessionId |-> Null, generatedAt |-> 0, expiresAt |-> 0,
     createdAt |-> 0, qrValue |-> Null, isSubmitting |-> FALSE,
     sessionSaved |-> FALSE, errorMessage |-> FALSE, expiryTime |-> Null,
     notifyId |-> Null, sent |-> {}, tried |-> {},
     \* history, not program state: the row this submit inserted, the rows
     \* active when it began, whether its deactivation write succeeded
     row |-> Null, wasActive |-> {}, deactivated |-> FALSE]

\* the object built at qrData (the text of the QR code)
QrData(a) ==
    [sessionId |-> admin[a].sessionId, name |-> admin[a].data.name,
     date |-> admin[a].data.date, time |-> admin[a].data.time,
     duration |-> admin[a].data.duration,
     generatedAt |-> admin[a].generatedAt, expiresAfter |-> ExpiryMinutes]

\* the object built at sessionData
SessionData(a) ==
    [name |-> admin[a].data.name, date |-> admin[a].data.date,
     time |-> admin[a].data.time, duration |-> admin[a].data.duration,
     isActive |-> TRUE, expiresAt |-> admin[a].expiresAt,
     createdAt |-> admin[a].createdAt, qr_code |-> Stringify(QrData(a))]

\* onSubmit returns: its locals are gone, the page's state stays
Returned(r) ==
    [r EXCEPT !.pc = "idle", !.data = NoData, !.sessionId = Null, !.generatedAt = 0,
              !.expiresAt = 0, !.createdAt = 0, !.notifyId = Null, !.sent = {},
              !.tried = {},
              !.row = Null, !.wasActive = {}, !.deactivated = FALSE]

\* the catch and finally blocks of onSubmit
SubmitFailed(r) ==
    [Returned(r) EXCEPT !.errorMessage = TRUE, !.isSubmitting = FALSE]

\* the form is edited between two submissions: fields change, the errors of
\* fields that are now valid go away, and the watch subscription clears
\* errorMessage
FormEdit(a, v) ==
    /\ admin[a].pc = "idle"
    /\ FormValues(form[a]) # v
    /\ form' = [form EXCEPT ![a] =
         [name |-> v.name, date |-> v.date, time |-> v.time,
          duration |-> v.duration, errors |-> form[a].errors \cap FormSchema(v)]]
    /\ admin' = [admin EXCEPT ![a].errorMessage = FALSE]
    /\ UNCHANGED <<storeVars, nextUuid, dashVars, scanVars, clockVars, zone, home, view>>

\* form.handleSubmit(onSubmit) with values the resolver rejects: the field
\* errors are shown and onSubmit is not called
SubmitInvalid(a) ==
    /\ admin[a].pc = "idle"
    /\ FormSchema(form[a]) # {}
    /\ form' = [form EXCEPT ![a].errors = FormSchema(form[a])]
    /\ UNCHANGED <<storeVars, adminVars, dashVars, scanVars, clockVars, zone, home, view>>

\* form.handleSubmit(onSubmit) with values the resolver accepts: onSubmit up
\* to `await QRCode.toDataURL(qrString)`
SubmitStart(a) ==
    /\ admin[a].pc = "idle"
    /\ FormSchema(form[a]) = {}
    /\ nextUuid < MaxSubmits
    /\ nextUuid' = nextUuid + 1
    /\ form' = [form EXCEPT ![a].errors = {}]
    /\ admin' = [admin EXCEPT ![a] =
         [@ EXCEPT !.pc = "toDataURL", !.isSubmitting = TRUE,
                   !.data = FormValues(form[a]),
                   !.sessionSaved = FALSE, !.errorMessage = FALSE,
                   !.sessionId = Uuid(nextUuid + 1), !.generatedAt = Now,
                   !.qrValue = Uuid(nextUuid + 1),
                   !.row = Null, !.wasActive = ActiveIds(sessions),
                   !.deactivated = FALSE]]
    /\ UNCHANGED <<storeVars, dashVars, scanVars, clockVars, zone, home, view>>

\* an onSubmit that a failed deactivation write aborts
SubmitDeactivateFatal(a, ok) ==
    /\ admin[a].pc = "toDataURL"
    /\ admin' = [admin EXCEPT ![a] =
         IF ok
         THEN [@ EXCEPT !.pc = "insert",
                        !.expiryTime = SetMinutesPlus(zone, Now, ExpiryMinutes),
                        !.expiresAt = StripMillis(SetMinutesPlus(zone, Now, ExpiryMinutes)),
                        !.createdAt = Now,
                        !.deactivated = ok]
         ELSE [Returned(@) EXCEPT !.errorMessage = TRUE, !.isSubmitting = FALSE]]
    /\ sessions' = IF ok THEN DeactivateAll(sessions) ELSE sessions
    /\ UNCHANGED <<attendance, nextUuid, dashVars, scanVars, clockVars, pageVars>>

\* from setQrUrl(url) to the deactivation write, which the store applies
\* (ok = TRUE) or answers with an error / a thrown exception (ok = FALSE)
SubmitDeactivate(a, ok) ==
    /\ admin[a].pc = "toDataURL"
    /\ admin' = [admin EXCEPT ![a] =
         [@ EXCEPT !.pc = "insert",
                   !.expiryTime = SetMinutesPlus(zone, Now, ExpiryMinutes),
                   !.expiresAt = StripMillis(SetMinutesPlus(zone, Now, ExpiryMinutes)),
                   !.createdAt = Now,
                   !.deactivated = ok]]
    /\ sessions' = IF ok THEN DeactivateAll(sessions) ELSE sessions
    /\ UNCHANGED <<attendance, nextUuid, dashVars, scanVars, clockVars, pageVars>>

\* after the 500 ms delay: the insert, which the store applies or rejects
SubmitInsert(a, ok) ==
    /\ admin[a].pc = "insert"
    /\ IF ok
       THEN /\ sessions' = InsertSession(sessions, SessionData(a))
            /\ admin' = [admin EXCEPT ![a] =
                 [@ EXCEPT !.pc = "notify",
                           !.row = Len(sessions) + 1]]
       ELSE /\ sessions' = sessions
            /\ admin' = [admin EXCEPT ![a] = SubmitFailed(@)]
    /\ UNCHANGED <<attendance, nextUuid, dashVars, scanVars, clockVars, pageVars>>

\* the channels of notifyActiveSessionChange, each in a try / catch of its
\* own: the 'session-created' event and the query cache, then the forced
\* update of the session row and localStorage
PushChannels == {"event", "cache"}
WriteChannels == {"update", "localStorage"}

\* after the second 500 ms delay: notifyActiveSessionChange up to the forced
\* update.  resp is what GET /api/sessions/active answered: Null for a thrown
\* fetch, a non-OK status or a body without data, else the id in result.data.
\* failed are the channels that throw.  tried is the set of channels this
\* invocation has attempted, sent the set of those it has got through, with
\* the id it broadcasts in notifyId
NotifyPoll(a, resp, failed) ==
    /\ admin[a].pc = "notify"
    /\ admin' = [admin EXCEPT ![a] =
         IF resp = Null
         THEN [@ EXCEPT !.pc = "refetch"]
         ELSE [@ EXCEPT !.pc = "notifyUpdate", !.notifyId = resp,
                        !.sent = PushChannels \ failed,
                        !.tried = PushChannels \cup {"update"}]]
    /\ UNCHANGED <<storeVars, nextUuid, dashVars, scanVars, clockVars, pageVars>>

\* a notification whose failing channel aborts onSubmit
NotifyUpdateFatal(a, failed) ==
    /\ admin[a].pc = "notifyUpdate"
    /\ admin' = [admin EXCEPT ![a] =
         IF failed # {}
         THEN [Returned(@) EXCEPT !.errorMessage = TRUE, !.isSubmitting = FALSE]
         ELSE [@ EXCEPT !.pc = "refetch", !.sent = @ \cup (WriteChannels \ failed),
                        !.tried = @ \cup WriteChannels]]
    /\ UNCHANGED <<storeVars, nextUuid, dashVars, scanVars, clockVars, pageVars>>

\* .update({ last_notified_at, notified: true }).eq('id', result.data.id),
\* columns nothing reads, answered, answered with an error or thrown; then
\* localStorage.setItem, which may throw
NotifyUpdate(a, failed) ==
    /\ admin[a].pc = "notifyUpdate"
    /\ admin' = [admin EXCEPT ![a] =
         [@ EXCEPT !.pc = "refetch", !.sent = @ \cup (WriteChannels \ failed),
                        !.tried = @ \cup WriteChannels]]
    /\ UNCHANGED <<storeVars, nextUuid, dashVars, scanVars, clockVars, pageVars>>

\* refetchSessions() resolved: setSessionSaved(true), then the finally block
SubmitDone(a) ==
    /\ admin[a].pc = "refetch"
    /\ admin' = [admin EXCEPT ![a] =
         [Returned(@) EXCEPT !.sessionSaved = TRUE, !.isSubmitting = FALSE]]
    /\ UNCHANGED <<storeVars, nextUuid, dashVars, scanVars, clockVars, pageVars>>

\* a countdown that also sweeps the store when it reaches zero
CountdownSweeps(a) ==
    /\ admin[a].expiryTime # Null
    /\ admin[a].expiryTime - Now < 1000
    /\ admin' = [admin EXCEPT ![a] =
         [@ EXCEPT !.qrValue = Null, !.sessionSaved = FALSE, !.expiryTime = Null]]
    /\ sessions' = [i \in 1..Len(sessions) |->
         [sessions[i] EXCEPT !.isActive = @ /\ Now <= sessions[i].expiresAt]]
    /\ UNCHANGED <<attendance, nextUuid, dashVars, scanVars, clockVars, pageVars>>

\* the countdown effect: diff = max(0, floor((expiryTime - now) / 1000)) <= 0
CountdownExpired(a) ==
    /\ admin[a].expiryTime # Null
    /\ admin[a].expiryTime - Now < 1000
    /\ admin' = [admin EXCEPT ![a] =
         [@ EXCEPT !.qrValue = Null, !.sessionSaved = FALSE, !.expiryTime = Null]]
    /\ UNCHANGED <<storeVars, nextUuid, dashVars, scanVars, clockVars, pageVars>>

(* --------------------------- StudentDashboard ------------------------- *)
FreeSlot == [pc |-> "free", user |-> Null, data |-> Null, error |-> "none"]

\* .from('attendance').eq('session_id', id).eq('user_id', u).single():
\* data only when exactly one row matches
SingleAttendance(att, id, u) ==
    LET rows == {r \in BagToSet(att) : r.sessionId = id /\ r.userId = u}
    IN  /\ Cardinality(rows) = 1
        /\ \A r \in rows : CopiesIn(r, att) = 1

\* fetchActiveSession is invoked (mount, 5 s interval or change subscription)
\* and the store answers its sessions query, or the query fails (err)
FetchSession(f, u, err) ==
    /\ fetches[f].pc = "free"
    /\ fetches' = [fetches EXCEPT ![f] =
         IF err THEN [pc |-> "session", user |-> u, data |-> Null, error |-> "other"]
         ELSE [pc |-> "session", user |-> u,
               data |-> MaybeSingleActive(sessions).data,
               error |-> MaybeSingleActive(sessions).error]]
    /\ UNCHANGED <<dash, storeVars, adminVars, scanVars, clockVars, pageVars>>

\* an answer that sets activeSession only while the dashboard shows none
FetchResolveOnce(f) ==
    /\ fetches[f].pc = "session"
    /\ LET r == fetches[f] IN
       IF r.error = "PGRST116"
       THEN /\ dash' = [dash EXCEPT ![r.user].activeSession = Null]
            /\ fetches' = [fetches EXCEPT ![f] = FreeSlot]
       ELSE IF r.error # "none"
       THEN /\ dash' = dash
            /\ fetches' = [fetches EXCEPT ![f] = FreeSlot]
       ELSE /\ dash' = [dash EXCEPT ![r.user].activeSession =
                         IF @ = Null THEN r.data ELSE @]
            /\ fetches' = [fetches EXCEPT ![f] =
                 IF r.data = Null THEN FreeSlot
                 ELSE [r EXCEPT !.pc = "attendance",
                                !.data = IF SingleAttendance(attendance, r.data, r.user)
                                         THEN 1 ELSE Null]]
    /\ UNCHANGED <<storeVars, adminVars, scanVars, clockVars, pageVars>>

\* the sessions answer arrives: setActiveSession, then the attendance query
FetchResolve(f) ==
    /\ fetches[f].pc = "session"
    /\ LET r == fetches[f] IN
       IF r.error = "PGRST116"
       THEN /\ dash' = [dash EXCEPT ![r.user].activeSession = Null]
            /\ fetches' = [fetches EXCEPT ![f] = FreeSlot]
       ELSE IF r.error # "none"
       THEN /\ dash' = dash
            /\ fetches' = [fetches EXCEPT ![f] = FreeSlot]
       ELSE /\ dash' = [dash EXCEPT ![r.user].activeSession = r.data]
            /\ fetches' = [fetches EXCEPT ![f] =
                 IF r.data = Null THEN FreeSlot
                 ELSE [r EXCEPT !.pc = "attendance",
                                !.data = IF SingleAttendance(attendance, r.data, r.user)
                                         THEN 1 ELSE Null]]
    /\ UNCHANGED <<storeVars, adminVars, scanVars, clockVars, pageVars>>

\* the attendance answer arrives: setIsCheckedIn(!!attendance)
FetchCheckedIn(f) ==
    /\ fetches[f].pc = "attendance"
    /\ dash' = [dash EXCEPT ![fetches[f].user].isCheckedIn = (fetches[f].data # Null)]
    /\ fetches' = [fetches EXCEPT ![f] = FreeSlot]
    /\ UNCHANGED <<storeVars, adminVars, scanVars, clockVars, pageVars>>

(* ------------------------------ QR texts ----------------------------- *)
\* the texts a camera can be shown: the QR code of every stored session, the
\* QR code an admin page displays, hand-made payloads, and text that is no
\* payload
ScanTexts ==
    {sessions[i].qr_code : i \in RowIds}
    \cup {Stringify(QrData(a)) : a \in {b \in Admins : admin[b].pc # "idle"}}
    \cup {Crafted(k) : k \in 0..(MaxSubmits + 1)}
    \cup {Garbage}

(* ------------------ StudentScanner and the recorder ------------------- *)
FreeCall ==
    [pc |-> "free", user |-> Null, sessionId |-> Null,
     \* the session row the lookup returned
     expiresAt |-> 0, isActive |-> FALSE]

ScannerInit ==
    [scanSuccess |-> FALSE, scanError |-> FALSE, isExpired |-> FALSE,
     errorMessage |-> "",
     \* the data of the '/api/sessions/active' query, and whether the
     \* '/api/attendance/me' data holds a record of it
     activeSession |-> Null, isCheckedIn |-> FALSE,
     \* history: how the handleQrCodeScan that finished last ended, if the
     \* flags have not been reset since
     outcome |-> "none"]

\* the message of an error of the given kind mentions "expired"
\* (error.message.toLowerCase().includes("expired"))
MentionsExpired(kind, m) ==
    IF kind = "ExpiredCode" THEN TRUE
    ELSE IF kind = "MalformedPayload" THEN FALSE
    ELSE m

\* a catch block that records the message and leaves scanError alone
ScanCatchSilent(sc, kind, m) ==
    [sc EXCEPT !.errorMessage = kind, !.outcome = kind]

\* the catch block of handleQrCodeScan
ScanCatch(sc, kind, m) ==
    [sc EXCEPT !.scanError = TRUE,
               !.isExpired = IF MentionsExpired(kind, m) THEN TRUE ELSE @,
               !.errorMessage = IF MentionsExpired(kind, m) THEN "expired" ELSE kind,
               !.outcome = kind]

\* a continuation that leaves scanSuccess alone
ScanThenSilent(sc, how) ==
    [sc EXCEPT !.outcome = how]

\* handleQrCodeScan after markAttendanceWithQR resolved
ScanThen(sc, how) ==
    [sc EXCEPT !.scanSuccess = TRUE, !.outcome = how]

\* the "Reset states" lines of handleQrCodeScan
ScanReset(sc) ==
    [sc EXCEPT !.scanSuccess = FALSE, !.scanError = FALSE, !.isExpired = FALSE,
               !.errorMessage = "", !.outcome = "none"]

\* the scanner callback fires with a decoded text: reset, parse, and either
\* the catch block or the call of markAttendanceWithQR
ScanStart(c, u, text) ==
    /\ calls[c].pc = "free"
    /\ BagCardinality(attendance) + Cardinality({d \in Calls : calls[d].pc # "free"})
         < MaxRecords
    /\ IF ParseQR(text).error
       THEN /\ scanner' = [scanner EXCEPT ![u] =
                 ScanCatch(ScanReset(@), "MalformedPayload", FALSE)]
            /\ calls' = calls
       ELSE /\ scanner' = [scanner EXCEPT ![u] = ScanReset(@)]
            /\ calls' = [calls EXCEPT ![c] =
                 [FreeCall EXCEPT !.pc = "lookup", !.user = u,
                                  !.sessionId = ParseQR(text).sessionId]]
    /\ UNCHANGED <<storeVars, adminVars, dashVars, clockVars, pageVars>>

\* recorder step 2: the Session Store looks payload.sessionId up among the
\* row ids; absent, the call fails with UnknownSession
RecLookup(c, m) ==
    /\ calls[c].pc = "lookup"
    /\ IF calls[c].sessionId \in RowIds
       THEN /\ calls' = [calls EXCEPT ![c] =
                 [@ EXCEPT !.pc = "find",
                           !.expiresAt = sessions[calls[c].sessionId].expiresAt,
                           !.isActive = sessions[calls[c].sessionId].isActive]]
            /\ scanner' = scanner
       ELSE /\ calls' = [calls EXCEPT ![c] = FreeCall]
            /\ scanner' = [scanner EXCEPT ![calls[c].user] =
                 ScanCatch(@, "UnknownSession", m)]
    /\ UNCHANGED <<storeVars, adminVars, dashVars, clockVars, pageVars>>

\* findBySessionAndUser(sessionId, userId)
FindRecord(att, id, u) ==
    {r \in BagToSet(att) : r.sessionId = id /\ r.userId = u}

\* recorder steps 3 and 4: now <= session.expiresAt or ExpiredCode; then the
\* Attendance Store is asked for a record of (session, user), and an
\* existing one is returned as already recorded
RecFind(c) ==
    /\ calls[c].pc = "find"
    /\ IF Now > calls[c].expiresAt
       THEN /\ calls' = [calls EXCEPT ![c] = FreeCall]
            /\ scanner' = [scanner EXCEPT ![calls[c].user] =
                 ScanCatch(@, "ExpiredCode", TRUE)]
       ELSE IF FindRecord(attendance, calls[c].sessionId, calls[c].user) # {}
       THEN /\ calls' = [calls EXCEPT ![c] = FreeCall]
            /\ scanner' = [scanner EXCEPT ![calls[c].user] = ScanThen(@, "already")]
       ELSE /\ calls' = [calls EXCEPT ![c] = [@ EXCEPT !.pc = "insert"]]
            /\ scanner' = scanner
    /\ UNCHANGED <<storeVars, adminVars, dashVars, clockVars, pageVars>>

\* the record of recorder step 5
NewRecord(id, u) ==
    [sessionId |-> id, userId |-> u, status |-> "present"]

\* recorder step 5: the insert, applied by the store or failed (StorageError)
RecInsert(c, ok, m) ==
    /\ calls[c].pc = "insert"
    /\ calls' = [calls EXCEPT ![c] = FreeCall]
    /\ IF ok
       THEN /\ attendance' = attendance (+) SetToBag({NewRecord(calls[c].sessionId, calls[c].user)})
            /\ scanner' = [scanner EXCEPT ![calls[c].user] = ScanThen(@, "recorded")]
       ELSE /\ attendance' = attendance
            /\ scanner' = [scanner EXCEPT ![calls[c].user] =
                 ScanCatch(@, "StorageError", m)]
    /\ UNCHANGED <<sessions, adminVars, dashVars, clockVars, pageVars>>

\* a query of the scanner page answers with other data than it held: session
\* s, and a list of the user's records that holds one of s or (checked =
\* FALSE) does not yet; the effect on [activeSession, isCheckedIn] runs
ScanEffect(u, s, checked) ==
    /\ <<s, checked>> # <<scanner[u].activeSession, scanner[u].isCheckedIn>>
    /\ checked => FindRecord(attendance, s, u) # {}
    /\ scanner' = [scanner EXCEPT ![u] =
         [@ EXCEPT !.activeSession = s, !.isCheckedIn = checked,
                   !.scanSuccess = checked, !.scanError = FALSE,
                   !.errorMessage = "", !.isExpired = FALSE,
                   !.outcome = "none"]]
    /\ UNCHANGED <<calls, storeVars, adminVars, dashVars, clockVars, pageVars>>

(* ------------------------- admin Attendance page ---------------------- *)
\* the queries' data is undefined until they answer (hasStudents, fetched);
\* the attendance query is cached under a key that names the active
\* session's id
ViewInit ==
    [activeSession |-> Null, hasStudents |-> FALSE, students |-> {},
     fetched |-> {}, records |-> [i \in 1..MaxSubmits |-> {}],
     \* what handleExportAttendance handed to exportAttendanceToExcel last
     exported |-> {}]

\* Attendance Store, list-by-session
ListBySession(att, id) == {r \in BagToSet(att) : r.sessionId = id}

\* attendanceRecords: data of the query
\* ['/api/attendance/session/' + (activeSession?.id || 0)], which is enabled
\* with !!activeSession?.id; no records while it is undefined
AttendanceRecords ==
    IF view.activeSession \in view.fetched
    THEN view.records[view.activeSession] ELSE {}

\* a table that marks every student present as soon as any record is fetched
StudentsWithAnyAttendance ==
    [student \in view.students |->
       [id |-> student, isPresent |-> AttendanceRecords # {}]]

\* students?.map(student => ({ ...student, isPresent: !!attendance })) with
\* attendance = attendanceRecords?.find(record => record.userId === student.id)
StudentsWithAttendance ==
    [student \in view.students |->
       [id |-> student,
        isPresent |-> \E record \in AttendanceRecords : record.userId = student]]

\* the ['/api/sessions/active'] query answers: no session, or a stored one
ViewActive(id) ==
    /\ view.activeSession # id
    /\ view' = [view EXCEPT !.activeSession = id]
    /\ UNCHANGED <<storeVars, adminVars, dashVars, scanVars, clockVars, form, zone, home>>

\* the ['/api/users/students'] query answers
ViewStudents ==
    /\ ~view.hasStudents
    /\ view' = [view EXCEPT !.hasStudents = TRUE, !.students = Users]
    /\ UNCHANGED <<storeVars, adminVars, dashVars, scanVars, clockVars, form, zone, home>>

\* the attendance query of the active session answers with the records the
\* Attendance Store lists for that session
ViewRecords ==
    /\ view.activeSession # Null
    /\ view' = [view EXCEPT !.fetched = @ \cup {view.activeSession},
                            !.records[view.activeSession] =
                               ListBySession(attendance, view.activeSession)]
    /\ UNCHANGED <<storeVars, adminVars, dashVars, scanVars, clockVars, form, zone, home>>

\* handleExportAttendance: one record per student, present or absent, handed
\* to exportAttendanceToExcel, which writes a file
ViewExport ==
    /\ view.activeSession # Null
    /\ view.hasStudents
    /\ view' = [view EXCEPT !.exported =
         {[id |-> 0, userId |-> StudentsWithAttendance[student].id,
           sessionId |-> view.activeSession,
           status |-> IF StudentsWithAttendance[student].isPresent
                      THEN "present" ELSE "absent"] : student \in view.students}]
    /\ UNCHANGED <<storeVars, adminVars, dashVars, scanVars, clockVars, form, zone, home>>

(* ----------------------------- StudentHome --------------------------- *)
\* IEEE 754 binary64 arithmetic on the small values the page computes with.
\* A positive double is 53 significand bits, most significant (a 1) first,
\* and the weight of the first bit as a power of two.
Significand == 53

\* the w low bits of n, most significant first
Bits(n, w) == [i \in 1..w |-> (n \div 2^(w - i)) % 2]

\* the integer a bit sequence spells
RECURSIVE BitsToNat(_)
BitsToNat(bits) ==
    IF bits = <<>> THEN 0
    ELSE 2 * BitsToNat(SubSeq(bits, 1, Len(bits) - 1)) + bits[Len(bits)]

\* the binary expansion of p / t from the bit of weight 2^0 on, by long
\* division, and the remainder left after its last bit (p <= t < 64)
Expansion(p, t) ==
    LET Chunk == 25     \* quotient bits taken per division step
        x1 == (p % t) * 2^Chunk
        x2 == (x1 % t) * 2^Chunk
        x3 == (x2 % t) * 2^Chunk
    IN  [bits |-> <<p \div t>> \o Bits(x1 \div t, Chunk) \o Bits(x2 \div t, Chunk)
                  \o Bits(x3 \div t, Chunk),
         rem |-> x3 % t]

\* bits + 1, the carry out of the top bit kept in front
Increment(bits) ==
    IF \A i \in 1..Len(bits) : bits[i] = 1
    THEN <<1>> \o [i \in 1..Len(bits) |-> 0]
    ELSE LET low == CHOOSE j \in 1..Len(bits) :
                      bits[j] = 0 /\ \A i \in (j + 1)..Len(bits) : bits[i] = 1
         IN  [i \in 1..Len(bits) |->
                IF i < low THEN bits[i] ELSE IF i = low THEN 1 ELSE 0]

\* round to nearest, ties to even: bits are the kept bits, up says the
\* discarded part is more than half a unit, tie that it is exactly half
RoundNearestEven(bits, up, tie) ==
    IF up \/ (tie /\ bits[Len(bits)] = 1) THEN Increment(bits) ELSE bits

\* keeps the first Significand bits of a significand that a carry made longer
Renormalize(d) ==
    IF Len(d.bits) > Significand
    THEN [bits |-> SubSeq(d.bits, 1, Significand), exp |-> d.exp + 1]
    ELSE d

\* the discarded low bits are exactly 1 0 ... 0
IsHalf(low) == low # <<>> /\ low[1] = 1 /\ \A i \in 2..Len(low) : low[i] = 0

\* the discarded low bits are more than 1 0 ... 0
IsMoreThanHalf(low) == low # <<>> /\ low[1] = 1 /\ \E i \in 2..Len(low) : low[i] = 1

\* the double nearest to p / t, for 0 < p <= t
FloatDivide(p, t) ==
    LET e == Expansion(p, t)
        first == CHOOSE i \in 1..Len(e.bits) :
                    e.bits[i] = 1 /\ \A j \in 1..(i - 1) : e.bits[j] = 0
        kept == SubSeq(e.bits, first, first + Significand - 1)
        low == SubSeq(e.bits, first + Significand, Len(e.bits))
    IN  Renormalize(
          [bits |-> RoundNearestEven(kept,
                      IsMoreThanHalf(low) \/ (low[1] = 1 /\ e.rem > 0),
                      IsHalf(low) /\ e.rem = 0),
           exp |-> 1 - first])

\* the bits of a significand times k, for a small positive integer k
TimesSmall(bits, k) ==
    LET Limb == 18      \* significand bits multiplied at a time
        x0 == BitsToNat(SubSeq(bits, Len(bits) - Limb + 1, Len(bits))) * k
        x1 == BitsToNat(SubSeq(bits, Len(bits) - 2 * Limb + 1, Len(bits) - Limb)) * k
              + x0 \div 2^Limb
        x2 == BitsToNat(SubSeq(bits, 1, Len(bits) - 2 * Limb)) * k + x1 \div 2^Limb
        width == CHOOSE w \in 1..30 : 2^(w - 1) <= x2 /\ x2 < 2^w
    IN  Bits(x2, width) \o Bits(x1 % 2^Limb, Limb) \o Bits(x0 % 2^Limb, Limb)

\* the double nearest to d * k, for a small positive integer k
FloatTimes(d, k) ==
    LET prod == TimesSmall(d.bits, k)
        extra == Len(prod) - Significand
        kept == SubSeq(prod, 1, Significand)
        low == SubSeq(prod, Significand + 1, Len(prod))
    IN  Renormalize([bits |-> RoundNearestEven(kept, IsMoreThanHalf(low), IsHalf(low)),
                     exp |-> d.exp + extra])

\* Math.round(x) = floor(x + 0.5), for a double of at least 1
MathRound(d) ==
    BitsToNat(SubSeq(d.bits, 1, d.exp + 1)) + d.bits[d.exp + 2]

\* totalSessions > 0 ? Math.round((presentSessions / totalSessions) * 100) : 0
AttendanceRate(present, total) ==
    IF total > 0
    THEN IF present = 0 THEN 0
         ELSE MathRound(FloatTimes(FloatDivide(present, total), 100))
    ELSE 0

\* attendanceRecords is undefined until the query answers
HomeInit == [total |-> 0, present |-> 0, rate |-> AttendanceRate(0, 0)]

\* the '/api/attendance/me' query answers with one record more, present or
\* not, and the page renders
HomeFetch(isPresent) ==
    /\ home.total < MaxSessions
    /\ LET totalSessions == home.total + 1
           presentSessions == home.present + (IF isPresent THEN 1 ELSE 0)
       IN  home' = [total |-> totalSessions, present |-> presentSessions,
                    rate |-> AttendanceRate(presentSessions, totalSessions)]
    /\ UNCHANGED <<storeVars, adminVars, dashVars, scanVars, clockVars, form, zone, view>>

(* ------------------------------- clock -------------------------------- *)
Tick ==
    /\ ticks < MaxTicks
    /\ ticks' = ticks + 1
    /\ UNCHANGED <<jumps, storeVars, adminVars, dashVars, scanVars, pageVars>>

Jump ==
    /\ jumps < MaxJumps
    /\ jumps' = jumps + 1
    /\ UNCHANGED <<ticks, storeVars, adminVars, dashVars, scanVars, pageVars>>

(* --------------------------- specifications --------------------------- *)
Init ==
    /\ ticks = 0
    /\ jumps = 0
    /\ sessions = <<>>
    /\ attendance = EmptyBag
    /\ nextUuid = 0
    /\ admin = [a \in Admins |-> AdminInit]
    /\ fetches = [f \in Slots |-> FreeSlot]
    /\ dash = [u \in Users |-> [activeSession |-> Null, isCheckedIn |-> FALSE]]
    /\ calls = [c \in Calls |-> FreeCall]
    /\ scanner = [u \in Users |-> ScannerInit]
    /\ form = [a \in Admins |-> FilledForm]
    /\ zone = "utc"
    /\ home = HomeInit
    /\ view = ViewInit

\* onSubmit, step by step
CreateStep(a) ==
    \/ SubmitStart(a)
    \/ \E ok \in BOOLEAN : SubmitDeactivate(a, ok)
    \/ \E ok \in BOOLEAN : SubmitInsert(a, ok)
    \/ \E resp \in {Null} \cup RowIds : NotifyPoll(a, resp, {})
    \/ NotifyUpdate(a, {})
    \/ SubmitDone(a)

AdminStep(a) ==
    \/ CreateStep(a)
    \/ CountdownExpired(a)

\* the fan-out of onSubmit with channels that throw
NotifyFailing(a) ==
    \/ \E resp \in RowIds, failed \in (SUBSET PushChannels) \ {{}} :
          NotifyPoll(a, resp, failed)
    \/ \E failed \in (SUBSET WriteChannels) \ {{}} : NotifyUpdate(a, failed)

DashStep(f) ==
    \/ \E u \in Users, err \in BOOLEAN : FetchSession(f, u, err)
    \/ FetchResolve(f)
    \/ FetchCheckedIn(f)

\* session lifecycle: the admin pages against the Session Store
Next ==
    \/ \E a \in Admins : AdminStep(a)
    \/ Jump

Spec == Init /\ [][Next]_vars

\* one instructor and the students' dashboards polling the Session Store
NextDash ==
    \/ \E a \in OneAdmin : AdminStep(a)
    \/ \E f \in Slots : DashStep(f)
    \/ Tick
    \/ Jump

SpecDash == Init /\ [][NextDash]_vars

ScanStep(c, U) ==
    \/ \E u \in U, text \in ScanTexts : ScanStart(c, u, text)
    \/ \E m \in BOOLEAN : RecLookup(c, m)
    \/ RecFind(c)
    \/ \E ok \in BOOLEAN, m \in BOOLEAN : RecInsert(c, ok, m)

\* one instructor and one student's scanner page, one scan at a time
NextScan ==
    \/ \E a \in OneAdmin : AdminStep(a)
    \/ \E c \in OneCall : ScanStep(c, OneUser)
    \/ Jump

SpecScan == Init /\ [][NextScan]_vars

\* one instructor and one student whose scanner callback fires again while
\* an earlier handleQrCodeScan is still awaiting the recorder
NextRace ==
    \/ \E a \in OneAdmin : AdminStep(a)
    \/ \E c \in Calls : ScanStep(c, OneUser)
    \/ Jump

SpecRace == Init /\ [][NextRace]_vars

\* the instructor at the form: editing and submitting
InitForm ==
    /\ ticks = 0
    /\ jumps = 0
    /\ sessions = <<>>
    /\ attendance = EmptyBag
    /\ nextUuid = 0
    /\ admin = [a \in Admins |-> AdminInit]
    /\ fetches = [f \in Slots |-> FreeSlot]
    /\ dash = [u \in Users |-> [activeSession |-> Null, isCheckedIn |-> FALSE]]
    /\ calls = [c \in Calls |-> FreeCall]
    /\ scanner = [u \in Users |-> ScannerInit]
    /\ form = [a \in Admins |-> DefaultForm]
    /\ zone = "utc"
    /\ home = HomeInit
    /\ view = ViewInit

\* the forms an instructor arrives at: filled in, with at most one field
\* left empty or typed differently
FormInputs ==
    {v \in [name : Names, date : Dates, time : Times, duration : Durations] :
        Cardinality({f \in {"name", "date", "time", "duration"} :
                        v[f] # FilledForm[f]}) <= 1}

NextForm ==
    \/ \E a \in OneAdmin : AdminStep(a)
    \/ \E a \in OneAdmin, v \in FormInputs : FormEdit(a, v)
    \/ \E a \in OneAdmin : SubmitInvalid(a)
    \/ Jump

SpecForm == InitForm /\ [][NextForm]_vars

\* one instructor whose browser is in either time zone
InitZone ==
    /\ ticks = 0
    /\ jumps = 0
    /\ sessions = <<>>
    /\ attendance = EmptyBag
    /\ nextUuid = 0
    /\ admin = [a \in Admins |-> AdminInit]
    /\ fetches = [f \in Slots |-> FreeSlot]
    /\ dash = [u \in Users |-> [activeSession |-> Null, isCheckedIn |-> FALSE]]
    /\ calls = [c \in Calls |-> FreeCall]
    /\ scanner = [u \in Users |-> ScannerInit]
    /\ form = [a \in Admins |-> FilledForm]
    /\ zone \in Zones
    /\ home = HomeInit
    /\ view = ViewInit

NextZone ==
    \/ \E a \in OneAdmin : AdminStep(a)
    \/ Tick
    \/ Jump

SpecZone == InitZone /\ [][NextZone]_vars

\* one instructor whose notification fan-out meets channels that fail
NextNotify ==
    \/ \E a \in OneAdmin : AdminStep(a)
    \/ \E a \in OneAdmin : NotifyFailing(a)
    \/ Jump

SpecNotify == Init /\ [][NextNotify]_vars

\* the row that the n-th onSubmit, of the filled-in form at time t, inserts
IssuedSession(n, t) ==
    [name |-> FilledForm.name, date |-> FilledForm.date,
     time |-> FilledForm.time, duration |-> FilledForm.duration,
     isActive |-> TRUE,
     expiresAt |-> StripMillis(SetMinutesPlus("utc", t, ExpiryMinutes)),
     createdAt |-> t,
     qr_code |-> Stringify(
        [sessionId |-> Uuid(n), name |-> FilledForm.name,
         date |-> FilledForm.date, time |-> FilledForm.time,
         duration |-> FilledForm.duration, generatedAt |-> t,
         expiresAfter |-> ExpiryMinutes])]

\* the students at their scanner pages after one onSubmit, begun at time 0,
\* has returned
InitCamera ==
    /\ ticks = 0
    /\ jumps = 0
    /\ sessions = InsertSession(<<>>, IssuedSession(1, 0))
    /\ attendance = EmptyBag
    /\ nextUuid = 1
    /\ admin = [a \in Admins |->
         IF a \in OneAdmin
         THEN [AdminInit EXCEPT !.qrValue = Uuid(1), !.sessionSaved = TRUE,
                                !.expiryTime = SetMinutesPlus("utc", 0, ExpiryMinutes)]
         ELSE AdminInit]
    /\ fetches = [f \in Slots |-> FreeSlot]
    /\ dash = [u \in Users |-> [activeSession |-> Null, isCheckedIn |-> FALSE]]
    /\ calls = [c \in Calls |-> FreeCall]
    /\ scanner = [u \in Users |-> ScannerInit]
    /\ form = [a \in Admins |-> FilledForm]
    /\ zone = "utc"
    /\ home = HomeInit
    /\ view = ViewInit

NextCamera ==
    \/ \E c \in OneCall : ScanStep(c, Users)
    \/ Jump

SpecCamera == InitCamera /\ [][NextCamera]_vars

\* the admin's Attendance page and a student at the scanner page after two
\* onSubmits, begun at time 0, have returned: the first session is inactive
InitView ==
    /\ ticks = 0
    /\ jumps = 0
    /\ sessions = InsertSession(DeactivateAll(InsertSession(<<>>, IssuedSession(1, 0))),
                                IssuedSession(2, 0))
    /\ attendance = EmptyBag
    /\ nextUuid = 2
    /\ admin = [a \in Admins |->
         IF a \in OneAdmin
         THEN [AdminInit EXCEPT !.qrValue = Uuid(2), !.sessionSaved = TRUE,
                                !.expiryTime = SetMinutesPlus("utc", 0, ExpiryMinutes)]
         ELSE AdminInit]
    /\ fetches = [f \in Slots |-> FreeSlot]
    /\ dash = [u \in Users |-> [activeSession |-> Null, isCheckedIn |-> FALSE]]
    /\ calls = [c \in Calls |-> FreeCall]
    /\ scanner = [u \in Users |-> ScannerInit]
    /\ form = [a \in Admins |-> FilledForm]
    /\ zone = "utc"
    /\ home = HomeInit
    /\ view = ViewInit

ViewStep ==
    \/ \E id \in {Null} \cup RowIds : ViewActive(id)
    \/ ViewStudents
    \/ ViewRecords
    \/ ViewExport

NextView ==
    \/ \E c \in OneCall : ScanStep(c, OneUser)
    \/ ViewStep

SpecView == InitView /\ [][NextView]_vars

\* one instructor and one student's dashboard, whose 5 s interval starts a
\* fetchActiveSession while an earlier one is still awaiting its answer.  The
\* interval keeps firing and the store keeps answering: a fetch whose sessions
\* query is answered begins again and again, and every answer arrives
Polls == {1, 2}

InitPoll ==
    /\ ticks = 0
    /\ jumps = 0
    /\ sessions = <<>>
    /\ attendance = EmptyBag
    /\ nextUuid = 0
    /\ admin = [a \in Admins |-> AdminInit]
    /\ fetches = [f \in Polls |-> FreeSlot]
    /\ dash = [u \in Users |-> [activeSession |-> Null, isCheckedIn |-> FALSE]]
    /\ calls = [c \in Calls |-> FreeCall]
    /\ scanner = [u \in Users |-> ScannerInit]
    /\ form = [a \in Admins |-> FilledForm]
    /\ zone = "utc"
    /\ home = HomeInit
    /\ view = ViewInit

PollStep(f) ==
    \/ \E u \in OneUser, err \in BOOLEAN : FetchSession(f, u, err)
    \/ FetchResolve(f)
    \/ FetchCheckedIn(f)

NextPoll ==
    \/ \E a \in OneAdmin : CreateStep(a)
    \/ \E f \in Polls : PollStep(f)

FairPoll ==
    /\ \A u \in OneUser : SF_vars(\E f \in Polls : FetchSession(f, u, FALSE))
    /\ \A f \in Polls : WF_vars(FetchResolve(f))
    /\ \A f \in Polls : WF_vars(FetchCheckedIn(f))

SpecPoll == InitPoll /\ [][NextPoll]_vars /\ FairPoll

\* a student who scans and whose dashboard polls, while the instructor, one
\* onSubmit of whom has returned, creates the next session
NextCheckIn ==
    \/ \E a \in OneAdmin : CreateStep(a)
    \/ \E c \in OneCall : ScanStep(c, OneUser)
    \/ \E f \in Slots : PollStep(f)

SpecCheckIn == InitCamera /\ [][NextCheckIn]_vars

\* one student's scanner page after one onSubmit has returned: the callback
\* fires again while an earlier handleQrCodeScan is still awaiting the
\* recorder, and the page's queries answer
NextFlags ==
    \/ \E c \in Calls : ScanStep(c, OneUser)
    \/ \E u \in OneUser, s \in RowIds, checked \in BOOLEAN : ScanEffect(u, s, checked)
    \/ Jump

SpecFlags == InitCamera /\ [][NextFlags]_vars

\* a student's home page as the list of attendance records grows
NextHome == \E isPresent \in BOOLEAN : HomeFetch(isPresent)

SpecHome == Init /\ [][NextHome]_vars

(* ------------------------------ claims -------------------------------- *)
\* attendance rows of (session id, user), counted with multiplicity
CountRecords(att, id, u) ==
    BagCardinality([r \in FindRecord(att, id, u) |-> att[r]])

\* an onSubmit of admin page a returns successfully in this step
Completes(a) == admin[a].pc = "refetch" /\ admin'[a].pc = "idle"

\* C1: under any interleaving of createSession operations, each a
\* deactivate-all write followed later by a separate insert, at most one
\* session row has isActive = true: so it is right after the insert of a
\* createSession whose deactivate-all write the store applied.
C1_AtMostOneActive ==
    [][\A a \in Admins :
         (admin[a].pc = "insert" /\ admin'[a].pc = "notify" /\ admin[a].deactivated)
         => Cardinality(ActiveIds(sessions')) <= 1]_vars

\* C2: when a createSession completes successfully and no other createSession
\* is in flight, exactly one session has isActive = true.
C2_ExactlyOneActiveAfterCreate ==
    [][\A a \in Admins :
         (Completes(a) /\ \A b \in Admins : admin'[b].pc = "idle")
         => Cardinality(ActiveIds(sessions')) = 1]_vars

\* C3: when a session was active as a createSession began and that
\* createSession runs to completion, the earlier session is inactive, the new
\* one is active and the active-session read returns the new one.
C3_SecondSessionReplacesFirst ==
    [][\A a \in Admins :
         (Completes(a) /\ admin[a].wasActive # {})
         => /\ \A i \in admin[a].wasActive : ~sessions'[i].isActive
            /\ sessions'[admin[a].row].isActive
            /\ MaybeSingleActive(sessions').data = admin[a].row]_vars

\* C4: there is at most one attendance row per (sessionId, userId), also when
\* handleQrCodeScan invocations of one student overlap.
C4_OneRecordPerPair ==
    \A i \in RowIds, u \in Users : CountRecords(attendance, i, u) <= 1

C6_ExpiredScanFailsExpired ==
    [][\A c \in Calls, i \in RowIds :
         (/\ calls[c].pc # "free"
          /\ calls'[c].pc = "free"
          /\ calls[c].sessionId = ParseQR(sessions[i].qr_code).sessionId
          /\ Now > sessions[i].expiresAt
          /\ Now > ParseQR(sessions[i].qr_code).generatedAt
                     + ParseQR(sessions[i].qr_code).expiresAfter * 60 * 1000)
         => /\ scanner'[calls[c].user].outcome = "ExpiredCode"
            /\ attendance' = attendance]_vars

\* C7: a scan of a well-formed payload whose sessionId is the id of no stored
\* session fails with UnknownSession, shows an error and leaves the
\* Attendance Store unchanged; no attendance row names an unknown session.
C7_UnknownSessionRejected ==
    [][/\ \A c \in Calls :
            (/\ calls[c].pc = "lookup"
             /\ calls'[c] # calls[c]
             /\ calls[c].sessionId \notin RowIds)
            => /\ calls'[c] = FreeCall
               /\ attendance' = attendance
               /\ scanner'[calls[c].user].outcome = "UnknownSession"
               /\ scanner'[calls[c].user].scanError
               /\ ~scanner'[calls[c].user].scanSuccess
       /\ \A r \in BagToSet(attendance') : r.sessionId \in 1..Len(sessions')]_vars

\* a scan has failed with UnknownSession while sessions and records exist
C7_Witness ==
    \E u \in Users :
        /\ scanner[u].outcome = "UnknownSession"
        /\ scanner[u].scanError
        /\ sessions # <<>>
        /\ attendance # EmptyBag

\* C8: a scan of the QR payload that createSession encoded for a stored
\* session resolves to that session: the payload's sessionId is the id of
\* the inserted row.
C8_IssuedPayloadResolves ==
    [][\A c \in Calls, i \in RowIds :
         (/\ calls[c].pc = "lookup"
          /\ calls'[c] # calls[c]
          /\ calls[c].sessionId = ParseQR(sessions[i].qr_code).sessionId)
         => /\ calls'[c].pc = "find"
            /\ calls'[c].sessionId = i]_vars

\* C9: the active-session read returns a session only if that session has
\* isActive = true and expiresAt > now.
C9_ActiveReadChecksExpiry ==
    [][\A f \in Slots :
         (fetches[f].pc = "free" /\ fetches'[f].pc = "session" /\ fetches'[f].data # Null)
         => /\ sessions[fetches'[f].data].isActive
            /\ sessions[fetches'[f].data].expiresAt > Now]_vars

\* C10: an attendance row is written only for a session that was active when
\* the scan looked it up; the payload of a session a later createSession has
\* deactivated creates no row.
C10_RecordsOnlyForActiveSession ==
    [][\A c \in Calls :
         (calls[c].pc = "insert" /\ attendance' # attendance) => calls[c].isActive]_vars


C12_MalformedFailsBeforeRecorder ==
    [][\A c \in Calls, u \in Users :
         (calls[c].pc = "free" /\ scanner'[u] # scanner[u])
         => \A text \in ScanTexts :
              (/\ text.form # "json" \/ text.sessionId = JsonAbsent
               /\ ScanStart(c, u, text))
              => /\ scanner'[u].outcome = "MalformedPayload"
                 /\ scanner'[u].scanError
                 /\ ~scanner'[u].scanSuccess
                 /\ ~scanner'[u].isExpired
                 /\ calls'[c].pc = "free"
                 /\ sessions' = sessions
                 /\ attendance' = attendance]_vars

\* a scan has failed with MalformedPayload while sessions and records exist
C12_Witness ==
    \E u \in Users :
        /\ scanner[u].outcome = "MalformedPayload"
        /\ scanner[u].scanError
        /\ \A c \in Calls : calls[c].pc = "free"
        /\ sessions # <<>>
        /\ attendance # EmptyBag


\* C13: every stored session has expiresAt = createdAt + 10 minutes, in whole
\* seconds, whatever its duration.
C13_ExpiresTenMinutesAfterCreated ==
    \A i \in RowIds :
        sessions[i].expiresAt \div 1000
          = sessions[i].createdAt \div 1000 + ExpiryMinutes * 60

\* the values createSession accepts: a name, a date YYYY-MM-DD, a time HH:MM
\* and a duration of at least one minute
ValidInput(v) ==
    /\ v.name # ""
    /\ v.date \in WellFormedDates
    /\ v.time \in WellFormedTimes
    /\ v.duration >= 1

\* C14: a submit of a form with an empty name, an empty or ill-formed date or
\* time, or a duration below 1 fails with a validation error: no onSubmit
\* begins (so nothing is written and nothing is notified), and a submit
\* attempt shows a field error.
C14_InvalidInputRejected ==
    [][\A a \in Admins :
         (admin[a].pc = "idle" /\ ~ValidInput(form[a]))
         => /\ admin'[a].pc = "idle"
            /\ sessions' = sessions
            /\ (form'[a].errors # form[a].errors => form'[a].errors # {})]_vars


\* C18: the rate shown is round(100 * present / total) for a non-empty list of
\* records and 0 for the empty list, an integer in 0..100 (so 50 for two
\* present out of four).
C18_RateIsRoundedPercentage ==
    /\ home.rate \in 0..100
    /\ home.rate = IF home.total = 0 THEN 0
                   ELSE (200 * home.present + home.total) \div (2 * home.total)


\* C15: when the insert of an onSubmit fails, the error is shown and the
\* Session Store is as it was when that onSubmit began: no row more, and the
\* rows active then are the rows active now (one instructor at work).
C15_FailedInsertLeavesNoPartialState ==
    [][\A a \in Admins :
         (admin[a].pc = "insert" /\ admin'[a].pc = "idle")
         => /\ admin'[a].errorMessage
            /\ ~admin'[a].sessionSaved
            /\ Len(sessions') = Len(sessions)
            /\ ActiveIds(sessions') = admin[a].wasActive]_vars

\* C16: an onSubmit whose deactivation write failed still goes on to the
\* insert, inserts its row with isActive = true, and after a successful insert
\* it is never aborted: it returns with sessionSaved and no error message.
C16_FailedDeactivationNotFatal ==
    [][\A a \in Admins :
         /\ (admin[a].pc = "toDataURL" /\ admin'[a].pc # "toDataURL"
               /\ sessions' = sessions)
            => admin'[a].pc = "insert"
         /\ (admin[a].pc = "insert" /\ ~admin[a].deactivated
               /\ Len(sessions') > Len(sessions))
            => /\ sessions'[Len(sessions')].isActive
               /\ admin'[a].pc = "notify"
         /\ (admin[a].pc \in {"notify", "notifyUpdate", "refetch"}
               /\ ~admin[a].deactivated /\ admin'[a].pc # admin[a].pc)
            => /\ ~admin'[a].errorMessage
               /\ admin'[a].pc = "idle" => admin'[a].sessionSaved]_vars

\* an onSubmit has returned with sessionSaved although its deactivation write
\* failed: the earlier session and the new one are both active
C16_Witness ==
    \E a \in OneAdmin :
        /\ admin[a].pc = "idle"
        /\ admin[a].sessionSaved
        /\ ~admin[a].errorMessage
        /\ Cardinality(ActiveIds(sessions)) = 2


\* C17: whatever fails in the notification fan-out (the poll, the event, the
\* cache update, the forced update, the localStorage write), onSubmit goes on:
\* no fan-out step aborts it or shows an error, and it returns with
\* sessionSaved, no error message and the store as the insert left it.
C17_FanOutFailuresNotFatal ==
    [][\A a \in Admins :
         /\ (admin[a].pc = "notify" /\ admin'[a].pc # "notify")
            => /\ admin'[a].pc \in {"notifyUpdate", "refetch"}
               /\ ~admin'[a].errorMessage
               /\ sessions' = sessions
         /\ (admin[a].pc = "notifyUpdate" /\ admin'[a].pc # "notifyUpdate")
            => /\ admin'[a].pc = "refetch"
               /\ ~admin'[a].errorMessage
               /\ sessions' = sessions
         /\ Completes(a)
            => /\ admin'[a].sessionSaved
               /\ ~admin'[a].errorMessage
               /\ ~admin'[a].isSubmitting
               /\ sessions' = sessions]_vars

\* the fan-out of an onSubmit is over: the poll answered with a session and
\* every channel after it failed, and onSubmit is about to return
C17_Witness ==
    \E a \in Admins :
        /\ admin[a].pc = "refetch"
        /\ admin[a].notifyId # Null
        /\ admin[a].sent = {}
        /\ admin[a].row \in ActiveIds(sessions)
        /\ ~admin[a].errorMessage


\* C19: in the admin's table for the active session a student is present
\* exactly when the fetched records hold a record of (active session,
\* student); building the table and exporting it leave the Attendance Store
\* alone, and no stored record says absent.
C19_PresentIffRecordFetched ==
    [][/\ (view'.activeSession # Null /\ view'.hasStudents)
          => \A student \in Users :
               /\ student \in DOMAIN StudentsWithAttendance'
               /\ StudentsWithAttendance'[student].isPresent
                  <=> /\ view'.activeSession \in view'.fetched
                      /\ \E r \in view'.records[view'.activeSession] :
                           r.sessionId = view'.activeSession /\ r.userId = student
       /\ view' # view => attendance' = attendance
       /\ \A r \in BagToSet(attendance') : r.status = "present"]_vars

\* the table of a session was exported with one student present and one
\* absent, while the store also holds a record of the other session
C19_Witness ==
    /\ \E e \in view.exported : e.status = "present"
    /\ \E e \in view.exported : e.status = "absent"
    /\ \E e \in view.exported, r \in BagToSet(attendance) : r.sessionId # e.sessionId
    /\ \A r \in BagToSet(attendance) : r.status = "present"


\* C20: if from some point on the Session Store holds exactly one active
\* session s and no longer changes, then from some point on every open
\* dashboard shows s, with polling alone and whatever the order in which
\* overlapping fetches are answered.
C20_PollingConverges ==
    \A s \in 1..MaxSubmits, u \in OneUser :
        <>[](ActiveIds(sessions) = {s}) => <>[](dash[u].activeSession = s)

\* the dashboard shows the one active session while the answer of an earlier
\* fetch, taken when another session was active, has still to arrive
C20_Witness ==
    \E u \in OneUser, f \in Polls, s \in RowIds :
        /\ ActiveIds(sessions) = {s}
        /\ \A a \in Admins : admin[a].pc = "idle"
        /\ dash[u].activeSession = s
        /\ fetches[f].pc = "session"
        /\ fetches[f].error = "none"
        /\ fetches[f].data \notin {Null, s}


\* C21: the session identity that the notification fan-out of a createSession
\* broadcasts is the identity of the row this createSession inserted, also
\* when another admin's createSession interleaves and when the remote
\* active-session endpoint answers from an older state
C21_BroadcastsInsertedSession ==
    [][\A a \in Admins :
         (admin[a].pc = "notify" /\ admin'[a].pc = "notifyUpdate")
           => admin'[a].notifyId = admin[a].row]_vars


\* C22: the fan-out channels are independent: after a successful session
\* insert, when notifyActiveSessionChange returns, each of the in-process
\* event, the cache update, the cross-tab key-value write and the forced
\* record write has been attempted, whatever the outcome of every other
\* channel and of the remote poll
C22_EveryChannelAttempted ==
    [][\A a \in Admins :
         (admin[a].pc \in {"notify", "notifyUpdate"} /\ admin'[a].pc = "refetch")
           => admin'[a].tried = PushChannels \cup WriteChannels]_vars


\* C23: after a failed scan the scanner shows the expired affordance
\* (isExpired) if and only if the failure was of kind ExpiredCode; a failure
\* of any other kind, whatever its message, ends with scanError and without
\* isExpired
C23_ExpiredAffordanceByKind ==
    [][\A u \in Users :
         (/\ scanner'[u] # scanner[u]
          /\ scanner'[u].outcome \in
               {"MalformedPayload", "UnknownSession", "ExpiredCode", "StorageError"})
           => /\ scanner'[u].scanError
              /\ scanner'[u].isExpired <=> scanner'[u].outcome = "ExpiredCode"]_vars


\* C24: expiry is never swept: the passing of time and the countdown of the
\* admin page reaching zero (which clears the displayed QR code) leave every
\* session row as it is, and a row's isActive goes from true to false only
\* in the deactivation write of a createSession whose insert is still to come
C24_ExpiryNeverSwept ==
    [][/\ (\/ Now' # Now
           \/ \E a \in Admins : admin[a].expiryTime # Null /\ admin'[a].expiryTime = Null)
          => sessions' = sessions
       /\ \A i \in RowIds :
            (sessions[i].isActive /\ ~sessions'[i].isActive)
              => \E a \in Admins :
                   /\ admin[a].pc = "toDataURL"
                   /\ admin'[a].pc = "insert"
                   /\ admin'[a].deactivated
                   /\ admin'[a].row = Null]_vars

\* a session's expiresAt has passed and the countdown has cleared the QR
\* code the admin page displayed for it, while its row is still active
C24_Witness ==
    \E i \in RowIds :
        /\ Now > sessions[i].expiresAt
        /\ sessions[i].isActive
        /\ \E a \in Admins :
              /\ admin[a].pc = "idle"
              /\ admin[a].qrValue = Null
              /\ admin[a].expiryTime = Null


\* C25: whenever the student dashboard displays an active session together
\* with isCheckedIn, the Attendance Store holds a record of that session for
\* the dashboard's user, also across the switch from one active session to
\* the next
C25_CheckedInHasRecord ==
    \A u \in Users :
        (dash[u].activeSession # Null /\ dash[u].isCheckedIn)
          => FindRecord(attendance, dash[u].activeSession, u) # {}


\* C26: in every state of the scanner page scanSuccess and scanError are not
\* both true and isExpired implies scanError, also when two scan callbacks
\* overlap and when the effect on the active session resets the flags
C26_FlagsConsistent ==
    \A u \in Users :
        /\ ~(scanner[u].scanSuccess /\ scanner[u].scanError)
        /\ scanner[u].isExpired => scanner[u].scanError


\* C27: whenever an admin page displays a QR code (qrValue non-empty) outside
\* a submit in progress (isSubmitting = false), the session that QR code
\* refers to is a row of the Session Store; a failed createSession leaves no
\* QR code displayed for a session that was never persisted
C27_DisplayedCodeIsPersisted ==
    \A a \in Admins :
        (admin[a].qrValue # Null /\ ~admin[a].isSubmitting)
          => \E i \in RowIds :
               sessions[i].qr_code.sessionId = JsonString(admin[a].qrValue)

====
